---- MODULE Spec2Model ----
(***************************************************************************)
(* Filtered-backprojection reconstruction (tfcone/algo/ctft.py): the three *)
(* weight generators, and the Reconstructor that caches their results and  *)
(* applies them to a projection stack.                                     *)
(*                                                                         *)
(* Numbers.  Angles are integers in units of pi/4 (Pi == 4 units), so the   *)
(* angle arithmetic of init_parker_3D is exact.  Real values that the code  *)
(* computes with sqrt, sin or a division are kept as the exact rational     *)
(* they are a function of:                                                 *)
(*   cosine cell   [sgn, num, den]   is  sgn * sqrt(num / den)             *)
(*   parker weight [num, den]        is  sin(pi/4 * num/den)^2             *)
(*   ramlak tap    [kind, arg]       is  0, -1/(pi^2 * arg) or arg/4       *)
(* Arrays are functions on 0..n-1, indexed as in the source.                *)
(***************************************************************************)
EXTENDS Integers, Sequences, FiniteSets, TLC

VARIABLES
    held,     \* the caller's ReconstructionConfiguration
    angles,   \* the caller's numpy array of projection angles
    recon,    \* the Reconstructor the caller holds, or None
    last      \* the caller's last call: function, exception, returned value

vars == <<held, angles, recon, last>>

None == [none |-> TRUE]

-----------------------------------------------------------------------------
(* Bounds of the model *)

MaxLen == 3      \* longest angle array
MaxAngle == 5    \* largest input angle, in units of pi/2 (2*pi is 4)
MaxDim == 3      \* largest detector width / height / projection count
MaxPix == 2      \* largest pixel width / height
MaxDist == 2     \* largest source_det_distance
MaxWidth == 5    \* largest ramlak_width

-----------------------------------------------------------------------------
(* Arithmetic helpers *)

Pi == 4

Abs(x) == IF x < 0 THEN -x ELSE x

Sign(x) == IF x < 0 THEN -1 ELSE IF x = 0 THEN 0 ELSE 1

RECURSIVE Gcd(_, _)
Gcd(a, b) == IF b = 0 THEN a ELSE Gcd(b, a % b)

\* array of length n
Size(a) == Cardinality(DOMAIN a)

\* range(a, b)
Range(a, b) == [k \in 0..(b - a - 1) |-> a + k]

\* max of a non-empty set of integers
SetMax(S) == CHOOSE m \in S : \A x \in S : x <= m

\* int(p / q) for q > 0: true division, then truncation toward zero
IntTrunc(p, q) == IF p >= 0 THEN p \div q ELSE -((-p) \div q)

\* math.atan(p / q), q # 0, rounded to the nearest multiple of pi/4:
\* |x| >= tan(3pi/8) = sqrt(2)+1 gives pi/2, |x| >= tan(pi/8) = sqrt(2)-1
\* gives pi/4, both decided exactly on the integers.
Atan(p, q) ==
    LET a == Abs(p)
        b == Abs(q)
        k == IF a > b /\ (a - b) * (a - b) >= 2 * b * b THEN 2
             ELSE IF (a + b) * (a + b) >= 2 * b * b THEN 1
             ELSE 0
    IN  Sign(p) * Sign(q) * k * (Pi \div 4)

Ok(v) == [err |-> "none", val |-> v]

Raise(e) == [err |-> e, val |-> <<>>]

-----------------------------------------------------------------------------
(* init_ramlak_1D *)

Tap(kind, arg) == [kind |-> kind, arg |-> arg]

\* the symmetric index range -hw .. hw
RamlakRangeInclusive(hw) == Range(-hw, hw + 1)

\* the indices the comprehension runs over: range( -hw, hw )
RamlakRange(hw) == Range(-hw, hw)

init_ramlak_1D(config) ==
    LET hw == config.ramlak_width \div 2
        pw == config.pixel_shape.W
        r == RamlakRange(hw)
        f == [k \in DOMAIN r |->
                IF r[k] % 2 = 1
                THEN Tap("neg_inv_pi2", (r[k] * pw) * (r[k] * pw))
                ELSE Tap("zero", 0)]
    IN  IF \E k \in DOMAIN r : r[k] % 2 = 1 /\ r[k] * pw = 0
        THEN Raise("ZeroDivisionError")
        ELSE IF hw \notin DOMAIN f /\ (hw + Size(f)) \notin DOMAIN f
        THEN Raise("IndexError")
        ELSE LET at == IF hw >= 0 THEN hw ELSE hw + Size(f)
             IN  Ok([f EXCEPT ![at] = Tap("quarter", pw * pw)])

-----------------------------------------------------------------------------
(* init_cosine_3D *)

Cell(sgn, num, den) == [sgn |-> sgn, num |-> num, den |-> den]

\* four times sd2 + dv + du, the radicand with the column offset in it
RadicandDvDu(config, v, u) ==
    LET s == config.proj_shape
        p == config.pixel_shape
        dv4 == ((2 * v + 1) * p.H - s.H * p.H) * ((2 * v + 1) * p.H - s.H * p.H)
        du4 == ((2 * u + 1) * p.W - s.W * p.W) * ((2 * u + 1) * p.W - s.W * p.W)
    IN  4 * config.source_det_distance * config.source_det_distance + dv4 + du4

\* four times sd2 + dv + dv, with cv = H/2 * pixel H and dv = ((v+0.5)*pixel H - cv)^2
Radicand(config, v, u) ==
    LET s == config.proj_shape
        p == config.pixel_shape
        dv4 == ((2 * v + 1) * p.H - s.H * p.H) * ((2 * v + 1) * p.H - s.H * p.H)
    IN  4 * config.source_det_distance * config.source_det_distance + dv4 + dv4

init_cosine_3D(config) ==
    LET s == config.proj_shape
        d == config.source_det_distance
        cells == (0..(s.H - 1)) \X (0..(s.W - 1))
    IN  IF \E c \in cells : Radicand(config, c[1], c[2]) = 0
        THEN Raise("ZeroDivisionError")
        ELSE Ok([c \in cells |->
                    Cell(Sign(d), 4 * d * d, Radicand(config, c[1], c[2]))])

-----------------------------------------------------------------------------
(* init_parker_1D *)

\* sin( pi/4 * num/den )^2 with 0 <= num/den <= 2, the fraction reduced
Weight(num, den) ==
    LET g == Gcd(Abs(num), Abs(den))
    IN  [num |-> (Sign(den) * num) \div g, den |-> Abs(den) \div g]

WeightOne == Weight(2, 1)

WeightZero == Weight(0, 1)

\* alpha of detector column u
FanAngle(config, u) ==
    Atan((2 * u + 1 - config.proj_shape.W) * config.pixel_shape.W,
         2 * config.source_det_distance)

\* The tolerance nm.eps of the assertion is below the angle resolution, so
\* beta + eps >= 0 is beta >= 0 on whole units.
init_parker_1D(config, beta, delta) ==
    IF beta < 0 THEN Raise("AssertionError")
    ELSE IF config.source_det_distance = 0 /\ config.proj_shape.W > 0
    THEN Raise("ZeroDivisionError")
    ELSE Ok([u \in 0..(config.proj_shape.W - 1) |->
            LET alpha == FanAngle(config, u)
            IN  IF beta >= 0 /\ beta < 2 * (delta + alpha)
                THEN Weight(beta, delta + alpha)
                ELSE IF beta >= Pi + 2 * alpha /\ beta < Pi + 2 * delta
                THEN Weight(Pi + 2 * delta - beta, delta - alpha)
                ELSE IF beta >= Pi + 2 * delta
                THEN WeightZero
                ELSE WeightOne])

-----------------------------------------------------------------------------
(* init_parker_3D *)

\* pa -= pa[0]: numpy subtracts in place, in the array the caller passed
SubtractFirst(pa) == [i \in DOMAIN pa |-> pa[i] - pa[0]]

\* np.where( x < 0, x + 2*pi, x )
WrapNegative(x) == IF x < 0 THEN x + 2 * Pi ELSE x

\* tmp[i][j] after lines 121 and 122
Differences(pa) ==
    [i \in DOMAIN pa |-> [j \in DOMAIN pa |-> WrapNegative(pa[i] - pa[j])]]

\* np.max( tmp, 1 )[j]: the largest entry of row j
RowMax(tmp, j) == SetMax({tmp[j][i] : i \in DOMAIN tmp})

\* np.max( tmp, 0 )[j]: the largest entry of column j
ColumnMax(tmp, j) == SetMax({tmp[i][j] : i \in DOMAIN tmp})

\* np.argmin: the first index of the smallest entry
ArgMin(a) ==
    CHOOSE j \in DOMAIN a :
        /\ \A k \in DOMAIN a : a[j] <= a[k]
        /\ \A k \in DOMAIN a : a[k] = a[j] => j <= k

\* pa after line 123
Rotated(pa) ==
    LET tmp == Differences(pa)
        j == ArgMin([k \in DOMAIN pa |-> ColumnMax(tmp, k)])
    IN  [i \in DOMAIN pa |-> tmp[i][j]]

\* delta of line 126; the caller checks source_det_distance # 0
Overscan(config) ==
    Atan(config.proj_shape.W * config.pixel_shape.W,
         2 * config.source_det_distance)

\* The call's frame: `arg` is the caller's array when the call ends, `pa` the
\* local of line 123 (the adjusted betas), `res` what the call returns or raises.
Parker3D(config, primary_angles_rad) ==
    IF Size(primary_angles_rad) = 0
    THEN [arg |-> primary_angles_rad, pa |-> <<>>, res |-> Raise("IndexError")]
    ELSE
    LET arg == SubtractFirst(primary_angles_rad)
        pa == Rotated([i \in DOMAIN arg |-> WrapNegative(arg[i])])
        delta == Overscan(config)
        rows == [i \in DOMAIN pa |-> init_parker_1D(config, pa[i], delta)]
        failed == {i \in DOMAIN pa : rows[i].err # "none"}
    IN  [arg |-> arg,
         pa |-> pa,
         res |-> IF config.source_det_distance = 0
                 THEN Raise("ZeroDivisionError")
                 ELSE IF failed # {}
                 THEN Raise(rows[CHOOSE i \in failed : \A k \in failed : i <= k].err)
                 ELSE Ok([i \in DOMAIN pa |-> rows[i].val])]

init_parker_3D(config, primary_angles_rad) ==
    Parker3D(config, primary_angles_rad).res

-----------------------------------------------------------------------------
(* ReconstructionConfiguration *)

\* The constructor stores its arguments (lines 204 to 210).  vol_shape,
\* vol_origin and voxel_shape are only forwarded to the backprojection
\* operator and are left out.
ReconstructionConfiguration(proj_shape, pixel_shape, source_det_distance, ramlak_width) ==
    [proj_shape |-> proj_shape,
     pixel_shape |-> pixel_shape,
     source_det_distance |-> source_det_distance,
     ramlak_width |-> ramlak_width]

\* The shape types of tfcone.util.types; their components are positive
ShapeProj(N, H, W) == [N |-> N, H |-> H, W |-> W]

Shape2D(W, H) == [W |-> W, H |-> H]

\* angle arrays a caller may hold: multiples of pi/2, up to MaxLen of them
AngleLists ==
    UNION {[0..(n - 1) -> {(Pi \div 2) * k : k \in 0..MaxAngle}] : n \in 0..MaxLen}

\* source_det_distance and ramlak_width are plain numbers: nothing keeps them
\* positive
Dists == (-1)..MaxDist

Widths == (-1)..MaxWidth

\* The configurations each generator is called with vary the fields it reads
CosineConfigs ==
    {ReconstructionConfiguration(ShapeProj(1, h, w), Shape2D(pw, ph), d, 2) :
        h \in 1..MaxDim, w \in 1..MaxDim, pw \in 1..MaxPix, ph \in 1..MaxPix,
        d \in Dists}

RamlakConfigs ==
    {ReconstructionConfiguration(ShapeProj(1, 1, 1), Shape2D(pw, 1), 1, rw) :
        pw \in 1..MaxPix, rw \in Widths}

ParkerConfigs ==
    {ReconstructionConfiguration(ShapeProj(1, 1, w), Shape2D(1, 1), d, 2) :
        w \in 2..3, d \in 0..2}

-----------------------------------------------------------------------------
(* The caller of the weight generators *)

NoCall == [fn |-> "none", err |-> "none"]

Returned(fn, r) == [fn |-> fn, err |-> r.err, val |-> r.val]

CallCosine ==
    /\ last' = Returned("init_cosine_3D", init_cosine_3D(held))
    /\ UNCHANGED <<held, angles, recon>>

CallRamlak ==
    /\ last' = Returned("init_ramlak_1D", init_ramlak_1D(held))
    /\ UNCHANGED <<held, angles, recon>>

\* init_parker_3D( held, angles ) on the array the caller holds; `arg` keeps
\* the values passed and `pa` the adjusted betas of line 123.
CallParker ==
    LET frame == Parker3D(held, angles)
    IN  /\ angles' = frame.arg
        /\ last' = [fn |-> "init_parker_3D", arg |-> angles, pa |-> frame.pa,
                    err |-> frame.res.err, val |-> frame.res.val]
        /\ UNCHANGED <<held, recon>>

InitGen ==
    /\ held \in CosineConfigs \cup RamlakConfigs
    /\ angles = <<>>
    /\ recon = None
    /\ last = NoCall

NextGen == CallCosine \/ CallRamlak

SpecGen == InitGen /\ [][NextGen]_vars

InitParker ==
    /\ held \in ParkerConfigs
    /\ angles \in AngleLists
    /\ recon = None
    /\ last = NoCall

NextParker == CallParker

SpecParker == InitParker /\ [][NextParker]_vars

-----------------------------------------------------------------------------
(* Reconstructor *)

\* ShapeProj.toNCHW(): the stack's shape, [N, H, W]
toNCHW(s) == <<s.N, s.H, s.W>>

\* np.pad( a, (0, n), 'constant' ): n zeros appended on the right
PadRight(a, n) ==
    [k \in 0..(Size(a) + n - 1) |-> IF k < Size(a) THEN a[k] ELSE Tap("zero", 0)]

\* np.fft.fft2( a.reshape( 1, 1, -1 ) ): the transform keeps the shape; the
\* spectrum is kept as the signal it is the transform of
FFT2(a) == [shape |-> <<1, 1, Size(a)>>, of |-> a]

\* Reconstructor.__init__: `arg` is the caller's angle array when the call
\* ends, `self` the object (None when the constructor raises)
ReconstructorInit(config, angles_rad, trainable) ==
    LET cosine_w_np == init_cosine_3D(config)
        frame == Parker3D(config, angles_rad)
        ramlak_1D == init_ramlak_1D(config)
        pad_size == IntTrunc(config.ramlak_width, 2)
    IN  IF cosine_w_np.err # "none"
        THEN [arg |-> angles_rad, self |-> None, err |-> cosine_w_np.err]
        ELSE IF frame.res.err # "none"
        THEN [arg |-> frame.arg, self |-> None, err |-> frame.res.err]
        ELSE IF ramlak_1D.err # "none"
        THEN [arg |-> frame.arg, self |-> None, err |-> ramlak_1D.err]
        ELSE [arg |-> frame.arg,
              err |-> "none",
              self |-> [config |-> config,
                        trainable |-> trainable,
                        cosine_w |-> cosine_w_np.val,
                        parker_w_np |-> frame.res.val,
                        parker_w |-> frame.res.val,
                        pad_size |-> pad_size,
                        kernel_ft |-> FFT2(PadRight(ramlak_1D.val, pad_size)),
                        pin |-> None]]

\* The shape of an elementwise product, or <<>> when the operands do not
\* broadcast
Broadcast(a, b) ==
    IF \A d \in 1..3 : a[d] = b[d] \/ a[d] = 1 \/ b[d] = 1
    THEN [d \in 1..3 |-> IF a[d] = 1 THEN b[d] ELSE a[d]]
    ELSE <<>>

\* One tensor operation of apply: nothing runs after an operation has raised
Op(t, shape) ==
    IF t.err # "none" THEN t
    ELSE IF shape = <<>> THEN [t EXCEPT !.err = "ValueError"]
    ELSE [t EXCEPT !.shape = shape]

\* The end of a stage: its name joins the stages that ran
Stage(t, name) ==
    IF t.err # "none" THEN t ELSE [t EXCEPT !.stages = Append(@, name)]

\* lines 294 to 298: the weights that scale the stack
Weighting(self, t, fullscan) ==
    LET s == self.config.proj_shape
        cosine == Stage(Op(t, Broadcast(t.shape, <<1, s.H, s.W>>)), "cosine")
    IN  IF ~fullscan
        THEN Stage(Op(cosine, Broadcast(cosine.shape,
                        <<Size(self.parker_w), 1, s.W>>)), "parker")
        ELSE cosine

\* lines 301 to 307: pad, transform, multiply by the kernel, transform back,
\* drop the first pad_size samples, reshape
Ramlak(self, t) ==
    LET padded == Op(t, [t.shape EXCEPT ![3] = @ + self.pad_size])
        product == Op(padded, Broadcast(self.kernel_ft.shape, padded.shape))
        cut == Op(product, [product.shape EXCEPT
                    ![3] = IF @ > self.pad_size THEN @ - self.pad_size ELSE 0])
        want == toNCHW(self.config.proj_shape)
        reshaped == Op(cut, IF cut.shape[1] * cut.shape[2] * cut.shape[3]
                                = want[1] * want[2] * want[3]
                            THEN want ELSE <<>>)
    IN  Stage(reshaped, "ramlak")

\* the same with the halving applied to the short scan instead
BackprojectionHalvesShortScan(self, t, fullscan) ==
    LET vol == Stage(t, "backproject")
        halved == IF ~fullscan THEN Stage(vol, "halve") ELSE vol
    IN  Stage(halved, "relu")

\* lines 310 to 326: backprojection, the halving of a full scan, the clamp
Backprojection(self, t, fullscan) ==
    LET vol == Stage(t, "backproject")
        halved == IF fullscan THEN Stage(vol, "halve") ELSE vol
    IN  Stage(halved, "relu")

\* Reconstructor.apply( proj, geom, fullscan ) on a stack of shape `shape`
ApplyRun(self, shape, fullscan) ==
    LET proj == [shape |-> shape, stages |-> <<>>, err |-> "none"]
        filtered == Ramlak(self, Weighting(self, proj, fullscan))
    IN  [out |-> Backprojection(self, filtered, fullscan),
         pin |-> IF filtered.err = "none" THEN filtered.shape ELSE self.pin]

\* The parameters each method declares (lines 266, 277 and 289)
MethodParams(fn) ==
    CASE fn = "reset" -> <<>>
      [] fn = "save_vars" -> <<>>
      [] fn = "apply" -> <<"self", "proj", "geom", "fullscan">>

\* obj.fn( args ): Python passes obj as the first positional argument
Binds(fn, nargs) == 1 + nargs <= Len(MethodParams(fn))

Construct ==
    /\ recon = None
    /\ \E trainable \in BOOLEAN :
        LET r == ReconstructorInit(held, angles, trainable)
        IN  /\ angles' = r.arg
            /\ recon' = r.self
            /\ last' = [fn |-> "Reconstructor", err |-> r.err]
    /\ UNCHANGED held

\* The caller passes a stack of the configured shape
Apply ==
    /\ recon # None
    /\ \E fullscan \in BOOLEAN :
        IF Binds("apply", 3)
        THEN LET r == ApplyRun(recon, toNCHW(recon.config.proj_shape), fullscan)
             IN  /\ recon' = [recon EXCEPT !.pin = r.pin]
                 /\ last' = [fn |-> "apply", fullscan |-> fullscan,
                             err |-> r.out.err, stages |-> r.out.stages,
                             shape |-> r.out.shape]
        ELSE /\ last' = [fn |-> "apply", fullscan |-> fullscan,
                         err |-> "TypeError", stages |-> <<>>, shape |-> <<>>]
             /\ UNCHANGED recon
    /\ UNCHANGED <<held, angles>>

\* An external optimizer overwrites the trainable weights between calls
Optimizer ==
    /\ recon # None
    /\ recon.trainable
    /\ \E w \in {WeightZero, WeightOne} :
        recon' = [recon EXCEPT !.parker_w =
                    [i \in DOMAIN @ |-> [u \in DOMAIN @[i] |-> w]]]
    /\ last' = [fn |-> "optimizer", err |-> "none"]
    /\ UNCHANGED <<held, angles>>

Reset ==
    /\ recon # None
    /\ IF Binds("reset", 0)
       THEN /\ recon' = [recon EXCEPT !.parker_w = recon.parker_w_np]
            /\ last' = [fn |-> "reset", err |-> "none"]
       ELSE /\ last' = [fn |-> "reset", err |-> "TypeError"]
            /\ UNCHANGED recon
    /\ UNCHANGED <<held, angles>>

SaveVars ==
    /\ recon # None
    /\ last' = [fn |-> "save_vars",
                err |-> IF Binds("save_vars", 0) THEN "none" ELSE "TypeError"]
    /\ UNCHANGED <<held, angles, recon>>

\* The configurations and angle arrays a Reconstructor is built from
ReconConfigs ==
    {ReconstructionConfiguration(ShapeProj(n, 1, w), Shape2D(1, 1), d, rw) :
        n \in 1..2, w \in 1..MaxDim, d \in (-1)..1, rw \in Widths}

ReconAngleLists == UNION {[0..(n - 1) -> {0, Pi, 3 * Pi}] : n \in 0..2}

Init ==
    /\ held \in ReconConfigs
    /\ angles \in ReconAngleLists
    /\ recon = None
    /\ last = NoCall

Next == Construct \/ Apply \/ Optimizer \/ Reset \/ SaveVars

Spec == Init /\ [][Next]_vars

-----------------------------------------------------------------------------
(* Properties *)

IsPrefix(s, t) == Len(s) <= Len(t) /\ SubSeq(t, 1, Len(s)) = s

\* The stages apply is specified to run, in order, in each mode
StageOrder(fullscan) ==
    IF fullscan
    THEN <<"cosine", "ramlak", "backproject", "halve", "relu">>
    ELSE <<"cosine", "parker", "ramlak", "backproject", "relu">>

\* C1: every apply call runs cosine weighting, Parker weighting (exactly when
\* fullscan is false), Ram-Lak filtering, backprojection, the halving
\* (exactly when fullscan is true) and the clamp, in that order: the stages a
\* call ran are an initial part of that list, and all of it when the call
\* returns.
C1_StageOrder ==
    last.fn = "apply" =>
        /\ IsPrefix(last.stages, StageOrder(last.fullscan))
        /\ last.err = "none" => last.stages = StageOrder(last.fullscan)

C1_Witness ==
    /\ last.fn = "apply"
    /\ last.err = "none"
    /\ ~last.fullscan
    /\ Len(last.stages) = Len(StageOrder(FALSE))

\* A configuration the data model calls valid
ValidConfig(config) ==
    /\ config.proj_shape.N > 0 /\ config.proj_shape.H > 0 /\ config.proj_shape.W > 0
    /\ config.pixel_shape.W > 0 /\ config.pixel_shape.H > 0
    /\ config.source_det_distance > 0
    /\ config.ramlak_width > 0

\* A Reconstructor built from a valid configuration and NumProjections angles
ValidReconstructor ==
    /\ recon # None
    /\ ValidConfig(recon.config)
    /\ Size(angles) = recon.config.proj_shape.N

\* C2: on a Reconstructor built from valid arguments, reset() completes and
\* leaves the Parker weights equal to the snapshot taken at construction.
C2_ResetRestores ==
    (last.fn = "reset" /\ ValidReconstructor) =>
        /\ last.err = "none"
        /\ recon.parker_w = recon.parker_w_np

\* C3: no Reconstructor is produced from a configuration that violates an
\* invariant, or from an angle array whose length is not NumProjections.
C3_FailFast ==
    (~ValidConfig(held) \/ Size(angles) # held.proj_shape.N) => recon = None

\* C4: init_parker_3D leaves the caller's angle array as it was, and a second
\* call on the same array returns what the first returned.
C4_Pure ==
    [][(ValidConfig(held) /\ CallParker) =>
        /\ angles' = angles
        /\ last.fn = "init_parker_3D" =>
              last'.err = last.err /\ last'.val = last.val]_vars

\* An angle array sorted ascending, starting at 0, within [0, 2*pi)
SortedFromZero(a) ==
    /\ Size(a) > 0
    /\ a[0] = 0
    /\ \A i \in DOMAIN a : a[i] >= 0 /\ a[i] < 2 * Pi
    /\ \A i \in DOMAIN a : i > 0 => a[i - 1] <= a[i]

\* The gap from the last angle round to the first is wider than every gap
\* between neighbours
WidestGapWraps(a) ==
    \A i \in DOMAIN a : i > 0 => a[i] - a[i - 1] < 2 * Pi - a[Size(a) - 1]

\* The adjusted betas are the raw angles, and each row is the 1D weights of its
\* raw angle
IdentityRotation ==
    /\ last.pa = last.arg
    /\ last.err = "none" =>
          \A i \in DOMAIN last.arg :
              last.val[i] = init_parker_1D(held, last.arg[i], Overscan(held)).val

\* C5 as stated: for every sorted angle array starting at 0 within [0, 2*pi)
\* the rotation search selects the identity rotation.
C5_SortedIdentity ==
    (/\ last.fn = "init_parker_3D"
     /\ ValidConfig(held)
     /\ SortedFromZero(last.arg)) => IdentityRotation

\* C5: for every sorted angle array starting at 0 within [0, 2*pi) whose
\* wrap-around gap, 2*pi minus the last angle, is wider than every gap between
\* consecutive angles, the rotation search selects the identity rotation.
C5_WidestGapIdentity ==
    (/\ last.fn = "init_parker_3D"
     /\ SortedFromZero(last.arg)
     /\ WidestGapWraps(last.arg)) => IdentityRotation

C5_Witness ==
    /\ last.fn = "init_parker_3D"
    /\ last.err = "none"
    /\ Size(last.arg) = 3
    /\ SortedFromZero(last.arg)
    /\ WidestGapWraps(last.arg)
    /\ last.arg[1] > 0
    /\ last.arg[2] > last.arg[1]

\* sgn * sqrt( num / den ) lies in (0, 1] / is 1
InUnitInterval(c) == c.sgn = 1 /\ 0 < c.num /\ c.num <= c.den

IsOne(c) == c.sgn = 1 /\ c.num = c.den

\* C6 as stated: for a valid configuration every cosine weight lies in (0, 1]
\* and none is 1.
C6_NeverOne ==
    (last.fn = "init_cosine_3D" /\ ValidConfig(held)) =>
        /\ last.err = "none"
        /\ \A c \in DOMAIN last.val :
              InUnitInterval(last.val[c]) /\ ~IsOne(last.val[c])

\* C6: for a valid configuration every cosine weight lies in (0, 1], and the
\* weights of the centre row of a detector of odd height (2v + 1 = H) are 1.
C6_UnitIntervalCentreRow ==
    (last.fn = "init_cosine_3D" /\ ValidConfig(held)) =>
        /\ last.err = "none"
        /\ \A c \in DOMAIN last.val :
              /\ InUnitInterval(last.val[c])
              /\ 2 * c[1] + 1 = held.proj_shape.H => IsOne(last.val[c])

C6_Witness ==
    /\ last.fn = "init_cosine_3D"
    /\ ValidConfig(held)
    /\ held.proj_shape.H = 3
    /\ held.proj_shape.W = 2
    /\ IsOne(last.val[<<1, 0>>])
    /\ ~IsOne(last.val[<<0, 0>>])

\* C7: for every ramlak_width > 0 and pixel width > 0 the kernel is generated,
\* its tap at offset 0 (index hw) is pixelWidth^2 / 4, its taps at odd offsets
\* are -1/(i*pi*pixelWidth)^2 < 0, and its taps at even non-zero offsets are 0.
C7_TapStructure ==
    (/\ last.fn = "init_ramlak_1D"
     /\ held.ramlak_width > 0
     /\ held.pixel_shape.W > 0) =>
        /\ last.err = "none"
        /\ LET hw == held.ramlak_width \div 2
               pw == held.pixel_shape.W
           IN  /\ hw \in DOMAIN last.val
               /\ \A k \in DOMAIN last.val :
                     last.val[k] =
                        IF k = hw THEN Tap("quarter", pw * pw)
                        ELSE IF (k - hw) % 2 = 1
                        THEN Tap("neg_inv_pi2", ((k - hw) * pw) * ((k - hw) * pw))
                        ELSE Tap("zero", 0)

\* C8: the spatial kernel has ramlak_width taps, and the cached kernel has
\* ramlak_width + pad_size samples with pad_size = floor(ramlak_width / 2),
\* the padding being zeros on the right.
C8_KernelLengths ==
    ValidReconstructor =>
        LET width == recon.config.ramlak_width
            kernel == recon.kernel_ft.of
        IN  /\ recon.pad_size = width \div 2
            /\ recon.kernel_ft.shape = <<1, 1, width + recon.pad_size>>
            /\ Size(kernel) = width + recon.pad_size
            /\ \A k \in DOMAIN kernel : k >= width => kernel[k] = Tap("zero", 0)

\* C9: every adjusted beta that init_parker_3D hands to init_parker_1D lies in
\* [0, 2*pi), so the assertion of init_parker_1D never fails.
C9_BetaInRange ==
    (last.fn = "init_parker_3D" /\ ValidConfig(held) /\ Size(last.arg) > 0) =>
        /\ \A i \in DOMAIN last.pa : last.pa[i] >= 0 /\ last.pa[i] < 2 * Pi
        /\ last.err # "AssertionError"

\* The width apply pads the stack to, and the width of the cached kernel
PaddedWidth == recon.config.proj_shape.W + recon.pad_size

KernelWidth == recon.kernel_ft.shape[3]

====
